---- MODULE Spec2Model ----
(***************************************************************************)
(* The escrow program (programs/escrow): the Escrow, Config, Arbiter and   *)
(* Reputation accounts, the lamports held by every account, and one action *)
(* per instruction.  An instruction is modelled in two parts, as the       *)
(* framework runs it: the account validation generated from the            *)
(* #[derive(Accounts)] struct (missing accounts, init, seeds, has_one,     *)
(* constraint, in the framework's order), then the handler.  Each          *)
(* instruction is an operator from the ledger before the call to a result  *)
(* [err, st]: err is "Ok" or the error raised, st the ledger as the        *)
(* instruction left it at that point.  A transaction whose instruction     *)
(* returns an error is not committed.                                      *)
(*                                                                         *)
(* Value unit: TLC's integers are 32 bits wide, so lamports are counted in *)
(* units of 10^6 lamports: MIN_ESCROW_AMOUNT and MAX_ESCROW_AMOUNT are the *)
(* source's constants divided by 10^6, and U64_MAX stands for u64::MAX.    *)
(* Fee basis points and the divisor 10000 are the source's.                *)
(***************************************************************************)
EXTENDS Integers, FiniteSets, Sequences, TLC

\* ---------------------------------------------------------------- bounds
\* Largest value of a lamport balance (u64::MAX of the model).
U64_MAX == 2000000000
\* Largest value of a reputation counter (u64::MAX of the counters' model).
COUNTER_MAX == 2
\* Number of committed transactions explored.
MaxTxs == 5
\* The ledger time of the explored transactions (Clock::get().unix_timestamp).
unix_timestamp == 7
\* Number of committed transactions of the dispute scenario: two reputation
\* accounts, config, arbiter, escrow, dispute and its settlement.
MaxDisputeTxs == 7
\* Number of committed transactions of the scenario with two escrows: both
\* created, one settled, the other disputed and settled, and one more.
MaxVaultTxs == 6
\* Lamports an account must retain to stay allocated (Rent::minimum_balance).
RentExempt == 2
\* Lamports of a participant that cannot fund the largest escrow.
SmallWallet == 8

\* ------------------------------------------------------------- constants
MIN_ESCROW_AMOUNT == 10
MAX_ESCROW_AMOUNT == 1000000
MAX_FEE_BASIS_POINTS == 1000
BASIS_POINTS_DIVISOR == 10000

Users == {"alice", "bob", "carol"}
\* The address of the escrow account of a (buyer, seller) pair: the PDA of
\* the seeds [ESCROW_SEED, buyer, seller].
EscrowPda(buyer, seller) == <<buyer, seller>>
Pairs == Users \X Users
\* An account of this program named as the seller of an escrow: the address
\* of the escrow account of the pair (alice, bob).  create_escrow takes any
\* account as the seller (`seller: AccountInfo`), a wallet or not.
ProgramAccount == "escrow(alice,bob)"
ProgramAccountKey == EscrowPda("alice", "bob")
CONFIG_SEED == "config"
FEE_COLLECTOR_SEED == "fee_collector"
\* An optional account the caller leaves out.
NoAccount == "none"

EscrowStatus == {"Initialized", "Active", "Completed", "Cancelled", "Disputed"}
DisputeResolution == {"FavorBuyer", "FavorSeller", "Split"}
ReputationUpdate == {"Successful", "Failed"}

\* ---------------------------------------------------------------- inputs
AmountInputs == {MIN_ESCROW_AMOUNT - 1, MIN_ESCROW_AMOUNT, 25,
                 MAX_ESCROW_AMOUNT, MAX_ESCROW_AMOUNT + 1}
FeeInputs == {0, MAX_FEE_BASIS_POINTS, MAX_FEE_BASIS_POINTS + 1}
WithdrawInputs == {1, 100000}
AdminInputs == {"carol"}
ArbiterInputs == {"bob", "carol"}
SellerSlotInputs == {"alice", "bob"}
AuthorityInputs == {"carol"}
\* The build setting overflow-checks, which the sources do not fix: on or off.
OverflowChecks == BOOLEAN
InitialLamports == [u \in Users |->
    IF u = "alice" THEN MAX_ESCROW_AMOUNT + SmallWallet ELSE SmallWallet]

VARIABLES
    lamports,       \* lamports of each participant's wallet
    escrows,        \* escrow accounts that exist, by address
    config,         \* the Config account, by CONFIG_SEED, once it exists
    fee_collector,  \* lamports of the fee collector PDA
    arbiters,       \* arbiter accounts that exist, by arbiter identity
    reputations,    \* reputation accounts that exist, by user identity
    txs,            \* number of transactions committed so far
    last            \* the last transaction: instruction, accounts, outcome

vars == <<lamports, escrows, config, fee_collector, arbiters, reputations,
          txs, last>>

\* The ledger as one record, as an instruction sees it.
Ledger == [lamports |-> lamports, escrows |-> escrows, config |-> config,
           fee_collector |-> fee_collector, arbiters |-> arbiters,
           reputations |-> reputations]

\* ------------------------------------------------------------ arithmetic
Some(v) == [some |-> TRUE, val |-> v]
None == [some |-> FALSE, val |-> 0]
checked_add(a, b) == IF a > U64_MAX - b THEN None ELSE Some(a + b)
checked_sub(a, b) == IF a < b THEN None ELSE Some(a - b)
checked_mul(a, b) == IF b # 0 /\ a > U64_MAX \div b THEN None ELSE Some(a * b)
checked_div(a, b) == IF b = 0 THEN None ELSE Some(a \div b)
\* The plain operators `a += b` and `a -= b` on u64: out of range they panic
\* (None) in a build with overflow-checks and wrap around in a build without.
add_assign(overflow_checks, a, b) ==
    IF a > U64_MAX - b
    THEN IF overflow_checks THEN None ELSE Some(a - (U64_MAX - b) - 1)
    ELSE Some(a + b)
sub_assign(overflow_checks, a, b) ==
    IF a < b
    THEN IF overflow_checks THEN None ELSE Some((a - b) + U64_MAX + 1)
    ELSE Some(a - b)
\* Mutant: the counter wraps around instead of saturating.
wrapping_add(a, b) == (a + b) % (COUNTER_MAX + 1)
saturating_add(a, b) == IF a > COUNTER_MAX - b THEN COUNTER_MAX ELSE a + b

\* --------------------------------------------------------------- results
Ok(st) == [err |-> "Ok", st |-> st]
Fail(e, st) == [err |-> e, st |-> st]

Put(f, k, v) == [x \in (DOMAIN f) \cup {k} |-> IF x = k THEN v ELSE f[x]]

\* ----------------------------------------------------------- state/*.rs
\* Mutant: release allowed in every status.
can_release_always(e) == TRUE
can_release(e) == e.status = "Active"
\* Mutant: cancellation also allowed while Disputed.
can_cancel_disputed(e) == e.status \in {"Initialized", "Active", "Disputed"}
can_cancel(e) == e.status \in {"Initialized", "Active"}
is_finalized(e) == e.status \in {"Completed", "Cancelled"}
\* Mutant: any signer passes for the admin.
is_admin_anyone(c, key) == TRUE
is_admin(c, key) == c.admin = key
\* Mutant: a deactivated arbiter may still resolve.
can_resolve_disputes_always(a) == TRUE
can_resolve_disputes(a) == a.is_active
increment_successful(r) ==
    [r EXCEPT !.successful_trades = saturating_add(r.successful_trades, 1)]
increment_failed(r) ==
    [r EXCEPT !.failed_trades = saturating_add(r.failed_trades, 1)]

\* The account an `init` constraint has just allocated: zeroed data.
ZeroEscrow == [buyer |-> NoAccount, seller |-> NoAccount, amount |-> 0,
               status |-> "Initialized", created_at |-> 0,
               lamports |-> RentExempt]
ZeroConfig == [admin |-> NoAccount, fee_basis_points |-> 0]
ZeroArbiter == [arbiter |-> NoAccount, added_by |-> NoAccount, added_at |-> 0,
                is_active |-> FALSE]
ZeroReputation == [user |-> NoAccount, successful_trades |-> 0,
                   failed_trades |-> 0]

\* system_program::transfer from a wallet: fails when the wallet holds less.
PayFrom(st, payer, n) ==
    [st EXCEPT !.lamports[payer] = st.lamports[payer] - n]

\* The owner check of `SystemAccount`: a wallet, and an address that holds no
\* account, is owned by the System Program; an address that holds an escrow
\* account is owned by this program.
SystemOwned(st, account) ==
    ~(account = ProgramAccount /\ ProgramAccountKey \in DOMAIN st.escrows)

\* The lamports of an account passed as a party (`account.lamports()`), and
\* the ledger after they are set (`**account.try_borrow_mut_lamports()? = v`):
\* a wallet's balance, or the balance of the escrow account at the address.
Lamports(st, account) ==
    IF account = ProgramAccount THEN st.escrows[ProgramAccountKey].lamports
    ELSE st.lamports[account]
SetLamports(st, account, v) ==
    IF account = ProgramAccount
    THEN [st EXCEPT !.escrows[ProgramAccountKey].lamports = v]
    ELSE [st EXCEPT !.lamports[account] = v]

\* Mutant: init_if_needed, an account that exists is accepted.
InitError_if_needed(exists, st, payer) ==
    IF ~exists /\ st.lamports[payer] < RentExempt THEN "InsufficientLamports"
    ELSE "Ok"

\* The `init` constraint: the payer funds a new account at an address that
\* holds none.  Returns the error, or "Ok" when the account can be created.
InitError(exists, st, payer) ==
    IF exists THEN "AccountAlreadyInUse"
    ELSE IF st.lamports[payer] < RentExempt THEN "InsufficientLamports"
    ELSE "Ok"

\* `if let Some(reputation) = &mut ctx.accounts.<party>_reputation`.
UpdateReputation(st, slot, update) ==
    IF slot = NoAccount THEN st
    ELSE [st EXCEPT !.reputations[slot] =
            IF update = "Successful" THEN increment_successful(@)
            ELSE increment_failed(@)]

\* Mutant: the reputation accounts are not optional.
ReputationRequired(st, slot) == slot \notin DOMAIN st.reputations
\* An optional reputation account that is supplied must exist ...
ReputationMissing(st, slot) ==
    slot # NoAccount /\ slot \notin DOMAIN st.reputations
\* ... and be the PDA of [REPUTATION_SEED, owner].
ReputationSeedsBad(slot, owner) == slot # NoAccount /\ slot # owner

\* --------------------------------------------- instructions/initialize.rs
initialize_reputation(s, payer, user) ==
    LET e == InitError(user \in DOMAIN s.reputations, s, payer) IN
    IF e # "Ok" THEN Fail(e, s)
    ELSE Ok([PayFrom(s, payer, RentExempt) EXCEPT
               !.reputations = Put(@, user, [ZeroReputation EXCEPT !.user = user])])

\* -------------------------------------- instructions/update_reputation.rs
update_reputation(s, authority, user, update) ==
    IF user \notin DOMAIN s.reputations THEN Fail("AccountNotInitialized", s)
    ELSE IF s.reputations[user].user # user THEN Fail("ConstraintRaw", s)
    ELSE Ok(UpdateReputation(s, user, update))

\* -------------------------------------- instructions/initialize_config.rs
\* Mutant: the fee is stored without the upper limit being checked.
initialize_config_unchecked(s, admin, fee_basis_points) ==
    LET e == InitError(CONFIG_SEED \in DOMAIN s.config, s, admin) IN
    IF e # "Ok" THEN Fail(e, s)
    ELSE
    LET s1 == [PayFrom(s, admin, RentExempt) EXCEPT
                 !.config = Put(@, CONFIG_SEED, ZeroConfig)] IN
    Ok([s1 EXCEPT !.config[CONFIG_SEED] =
          [admin |-> admin, fee_basis_points |-> fee_basis_points]])

initialize_config(s, admin, fee_basis_points) ==
    LET e == InitError(CONFIG_SEED \in DOMAIN s.config, s, admin) IN
    IF e # "Ok" THEN Fail(e, s)
    ELSE
    LET s1 == [PayFrom(s, admin, RentExempt) EXCEPT
                 !.config = Put(@, CONFIG_SEED, ZeroConfig)] IN
    IF ~(fee_basis_points <= MAX_FEE_BASIS_POINTS) THEN Fail("FeeTooHigh", s1)
    ELSE Ok([s1 EXCEPT !.config[CONFIG_SEED] =
               [admin |-> admin, fee_basis_points |-> fee_basis_points]])

\* -------------------------------------------- instructions/add_arbiter.rs
add_arbiter(s, now, admin, arbiter) ==
    IF CONFIG_SEED \notin DOMAIN s.config THEN Fail("AccountNotInitialized", s)
    ELSE
    LET e == InitError(arbiter \in DOMAIN s.arbiters, s, admin) IN
    IF e # "Ok" THEN Fail(e, s)
    ELSE
    LET s1 == [PayFrom(s, admin, RentExempt) EXCEPT
                 !.arbiters = Put(@, arbiter, ZeroArbiter)] IN
    IF ~is_admin(s1.config[CONFIG_SEED], admin) THEN Fail("Unauthorized", s1)
    ELSE Ok([s1 EXCEPT !.arbiters[arbiter] =
               [arbiter |-> arbiter, added_by |-> admin, added_at |-> now,
                is_active |-> TRUE]])

\* ----------------------------------------- instructions/remove_arbiter.rs
remove_arbiter(s, admin, arbiter_account) ==
    IF CONFIG_SEED \notin DOMAIN s.config THEN Fail("AccountNotInitialized", s)
    ELSE IF arbiter_account \notin DOMAIN s.arbiters
    THEN Fail("AccountNotInitialized", s)
    ELSE IF ~is_admin(s.config[CONFIG_SEED], admin) THEN Fail("Unauthorized", s)
    ELSE Ok([s EXCEPT !.arbiters[arbiter_account].is_active = FALSE])

\* ------------------------------------------ instructions/withdraw_fees.rs
\* The handler and its accounts.  lib.rs declares no entry point that calls
\* it, so no transaction runs it (see UnknownInstruction).
withdraw_fees(s, admin, amount) ==
    IF CONFIG_SEED \notin DOMAIN s.config THEN Fail("AccountNotInitialized", s)
    ELSE IF s.config[CONFIG_SEED].admin # admin THEN Fail("Unauthorized", s)
    ELSE IF ~(s.fee_collector >= amount) THEN Fail("InsufficientFunds", s)
    ELSE
    \* system_program::transfer debits the fee collector first and then
    \* credits the admin with a checked addition.
    LET s1 == [s EXCEPT !.fee_collector = @ - amount]
        credit == checked_add(s1.lamports[admin], amount) IN
    IF ~credit.some THEN Fail("ArithmeticOverflow", s1)
    ELSE Ok([s1 EXCEPT !.lamports[admin] = credit.val])

\* ------------------------------------------ instructions/create_escrow.rs
\* Mutant: the amount range checks left out.
create_escrow_no_range_check(s, now, buyer, seller, amount) ==
    LET key == EscrowPda(buyer, seller)
        e == InitError(key \in DOMAIN s.escrows, s, buyer) IN
    IF e # "Ok" THEN Fail(e, s)
    ELSE
    LET s1 == [PayFrom(s, buyer, RentExempt) EXCEPT
                 !.escrows = Put(@, key, ZeroEscrow)] IN
    IF ~(buyer # seller) THEN Fail("InvalidParties", s1)
    ELSE IF s1.lamports[buyer] < amount THEN Fail("InsufficientLamports", s1)
    ELSE Ok([PayFrom(s1, buyer, amount) EXCEPT !.escrows[key] =
               [buyer |-> buyer, seller |-> seller, amount |-> amount,
                status |-> "Active", created_at |-> now,
                lamports |-> RentExempt + amount]])

\* Mutant: the buyer # seller check left out.
create_escrow_no_party_check(s, now, buyer, seller, amount) ==
    LET key == EscrowPda(buyer, seller)
        e == InitError(key \in DOMAIN s.escrows, s, buyer) IN
    IF e # "Ok" THEN Fail(e, s)
    ELSE
    LET s1 == [PayFrom(s, buyer, RentExempt) EXCEPT
                 !.escrows = Put(@, key, ZeroEscrow)] IN
    IF ~(amount >= MIN_ESCROW_AMOUNT) THEN Fail("InsufficientFunds", s1)
    ELSE IF ~(amount <= MAX_ESCROW_AMOUNT) THEN Fail("InvalidAmount", s1)
    ELSE IF s1.lamports[buyer] < amount THEN Fail("InsufficientLamports", s1)
    ELSE Ok([PayFrom(s1, buyer, amount) EXCEPT !.escrows[key] =
               [buyer |-> buyer, seller |-> seller, amount |-> amount,
                status |-> "Active", created_at |-> now,
                lamports |-> RentExempt + amount]])

create_escrow(s, now, buyer, seller, amount) ==
    LET key == EscrowPda(buyer, seller)
        e == InitError(key \in DOMAIN s.escrows, s, buyer) IN
    IF e # "Ok" THEN Fail(e, s)
    ELSE
    LET s1 == [PayFrom(s, buyer, RentExempt) EXCEPT
                 !.escrows = Put(@, key, ZeroEscrow)] IN
    IF ~(amount >= MIN_ESCROW_AMOUNT) THEN Fail("InsufficientFunds", s1)
    ELSE IF ~(amount <= MAX_ESCROW_AMOUNT) THEN Fail("InvalidAmount", s1)
    ELSE IF ~(buyer # seller) THEN Fail("InvalidParties", s1)
    ELSE IF s1.lamports[buyer] < amount THEN Fail("InsufficientLamports", s1)
    ELSE Ok([PayFrom(s1, buyer, amount) EXCEPT !.escrows[key] =
               [buyer |-> buyer, seller |-> seller, amount |-> amount,
                status |-> "Active", created_at |-> now,
                lamports |-> RentExempt + amount]])

\* ------------------------------------------ instructions/cancel_escrow.rs
cancel_escrow(s, escrow, buyer, seller) ==
    IF escrow \notin DOMAIN s.escrows THEN Fail("AccountNotInitialized", s)
    ELSE
    LET e == s.escrows[escrow] IN
    IF escrow # EscrowPda(buyer, seller) THEN Fail("ConstraintSeeds", s)
    ELSE IF e.buyer # buyer THEN Fail("ConstraintHasOne", s)
    ELSE IF ~can_cancel(e) THEN Fail("InvalidState", s)
    ELSE
    LET amount == e.amount
        debit == checked_sub(e.lamports, amount) IN
    IF ~debit.some THEN Fail("InsufficientFunds", s)
    ELSE
    LET s1 == [s EXCEPT !.escrows[escrow].lamports = debit.val]
        credit == checked_add(s1.lamports[buyer], amount) IN
    IF ~credit.some THEN Fail("InsufficientFunds", s1)
    ELSE Ok([s1 EXCEPT !.lamports[buyer] = credit.val,
                       !.escrows[escrow].status = "Cancelled"])

\* ------------------------------------------ instructions/raise_dispute.rs
\* Mutant: the party constraint of RaiseDispute left out.
raise_dispute_by_anyone(s, escrow, party, buyer, seller) ==
    IF escrow \notin DOMAIN s.escrows THEN Fail("AccountNotInitialized", s)
    ELSE
    LET e == s.escrows[escrow] IN
    IF escrow # EscrowPda(buyer, seller) THEN Fail("ConstraintSeeds", s)
    ELSE IF ~(e.status = "Active") THEN Fail("InvalidState", s)
    ELSE Ok([s EXCEPT !.escrows[escrow].status = "Disputed"])

\* Mutant: the status constraint of RaiseDispute left out.
raise_dispute_any_status(s, escrow, party, buyer, seller) ==
    IF escrow \notin DOMAIN s.escrows THEN Fail("AccountNotInitialized", s)
    ELSE
    LET e == s.escrows[escrow] IN
    IF escrow # EscrowPda(buyer, seller) THEN Fail("ConstraintSeeds", s)
    ELSE IF ~(e.buyer = party \/ e.seller = party) THEN Fail("Unauthorized", s)
    ELSE Ok([s EXCEPT !.escrows[escrow].status = "Disputed"])

raise_dispute(s, escrow, party, buyer, seller) ==
    IF escrow \notin DOMAIN s.escrows THEN Fail("AccountNotInitialized", s)
    ELSE
    LET e == s.escrows[escrow] IN
    IF escrow # EscrowPda(buyer, seller) THEN Fail("ConstraintSeeds", s)
    ELSE IF ~(e.buyer = party \/ e.seller = party) THEN Fail("Unauthorized", s)
    ELSE IF ~(e.status = "Active") THEN Fail("InvalidState", s)
    ELSE Ok([s EXCEPT !.escrows[escrow].status = "Disputed"])

\* ------------------------------------------ instructions/release_funds.rs
\* fee_amount = amount * fee_basis_points / 10_000, multiplication first.
\* Mutant: the division is done before the multiplication.
FeeAmount_divide_first(amount, fee_basis_points) ==
    LET quotient == checked_div(amount, BASIS_POINTS_DIVISOR) IN
    IF ~quotient.some THEN None
    ELSE checked_mul(quotient.val, fee_basis_points)

FeeAmount(amount, fee_basis_points) ==
    LET product == checked_mul(amount, fee_basis_points) IN
    IF ~product.some THEN None
    ELSE checked_div(product.val, BASIS_POINTS_DIVISOR)

\* Whether the handler takes the fee branch: both optional accounts given.
\* Mutant: the fee branch is taken whenever the config is given.
ChargesFee_if_config(cfg, fee_acct) == cfg
ChargesFee(cfg, fee_acct) == cfg /\ fee_acct # NoAccount

\* Mutant: the fee is not taken out of the seller's share.
DeductFee_seller_paid_in_full(s, escrow, fee_acct, overflow_checks) ==
    LET amount == s.escrows[escrow].amount
        none == [err |-> "Ok", st |-> s, fee_amount |-> 0,
                 seller_amount |-> amount] IN
    IF fee_acct # FEE_COLLECTOR_SEED
    THEN [none EXCEPT !.err = "InvalidFeeCollector"]
    ELSE
    LET fee == FeeAmount(amount, s.config[CONFIG_SEED].fee_basis_points) IN
    IF ~fee.some THEN [none EXCEPT !.err = "InsufficientFunds"]
    ELSE
    LET rest == checked_sub(amount, fee.val) IN
    IF ~rest.some THEN [none EXCEPT !.err = "InsufficientFunds"]
    ELSE
    LET debit == sub_assign(overflow_checks, s.escrows[escrow].lamports,
                            fee.val) IN
    IF ~debit.some THEN [none EXCEPT !.err = "ArithmeticPanic"]
    ELSE
    LET s1 == [s EXCEPT !.escrows[escrow].lamports = debit.val]
        credit == add_assign(overflow_checks, s1.fee_collector, fee.val) IN
    IF ~credit.some THEN [none EXCEPT !.err = "ArithmeticPanic", !.st = s1]
    ELSE [err |-> "Ok", st |-> [s1 EXCEPT !.fee_collector = credit.val],
          fee_amount |-> fee.val, seller_amount |-> amount]

\* The fee branch of the handler: validates the fee collector, computes the
\* fee and moves it from the escrow account to the fee collector, the debit
\* first and the credit second.  Returns [err, st, fee_amount, seller_amount].
DeductFee(s, escrow, fee_acct, overflow_checks) ==
    LET amount == s.escrows[escrow].amount
        none == [err |-> "Ok", st |-> s, fee_amount |-> 0,
                 seller_amount |-> amount] IN
    IF fee_acct # FEE_COLLECTOR_SEED
    THEN [none EXCEPT !.err = "InvalidFeeCollector"]
    ELSE
    LET fee == FeeAmount(amount, s.config[CONFIG_SEED].fee_basis_points) IN
    IF ~fee.some THEN [none EXCEPT !.err = "InsufficientFunds"]
    ELSE
    LET rest == checked_sub(amount, fee.val) IN
    IF ~rest.some THEN [none EXCEPT !.err = "InsufficientFunds"]
    ELSE
    LET debit == sub_assign(overflow_checks, s.escrows[escrow].lamports,
                            fee.val) IN
    IF ~debit.some THEN [none EXCEPT !.err = "ArithmeticPanic"]
    ELSE
    LET s1 == [s EXCEPT !.escrows[escrow].lamports = debit.val]
        credit == add_assign(overflow_checks, s1.fee_collector, fee.val) IN
    IF ~credit.some THEN [none EXCEPT !.err = "ArithmeticPanic", !.st = s1]
    ELSE [err |-> "Ok", st |-> [s1 EXCEPT !.fee_collector = credit.val],
          fee_amount |-> fee.val, seller_amount |-> rest.val]

release_funds(s, escrow, buyer, seller, buyer_rep, seller_rep, cfg, fee_acct, overflow_checks) ==
    IF escrow \notin DOMAIN s.escrows THEN Fail("AccountNotInitialized", s)
    ELSE IF ReputationMissing(s, buyer_rep) \/ ReputationMissing(s, seller_rep)
    THEN Fail("AccountNotInitialized", s)
    ELSE IF cfg /\ CONFIG_SEED \notin DOMAIN s.config
    THEN Fail("AccountNotInitialized", s)
    ELSE
    LET e == s.escrows[escrow] IN
    IF escrow # EscrowPda(buyer, seller) THEN Fail("ConstraintSeeds", s)
    ELSE IF e.buyer # buyer \/ e.seller # seller THEN Fail("ConstraintHasOne", s)
    ELSE IF ~can_release(e) THEN Fail("InvalidState", s)
    ELSE IF ReputationSeedsBad(buyer_rep, buyer)
            \/ ReputationSeedsBad(seller_rep, seller)
    THEN Fail("ConstraintSeeds", s)
    ELSE
    LET f == IF ChargesFee(cfg, fee_acct)
             THEN DeductFee(s, escrow, fee_acct, overflow_checks)
             ELSE [err |-> "Ok", st |-> s, fee_amount |-> 0,
                   seller_amount |-> e.amount] IN
    IF f.err # "Ok" THEN Fail(f.err, f.st)
    ELSE
    LET s1 == f.st
        debit == checked_sub(s1.escrows[escrow].lamports, f.seller_amount) IN
    IF ~debit.some THEN Fail("InsufficientFunds", s1)
    ELSE
    LET s2 == [s1 EXCEPT !.escrows[escrow].lamports = debit.val]
        credit == checked_add(Lamports(s2, seller), f.seller_amount) IN
    IF ~credit.some THEN Fail("InsufficientFunds", s2)
    ELSE
    LET s3 == [SetLamports(s2, seller, credit.val) EXCEPT
                 !.escrows[escrow].status = "Completed"] IN
    Ok(UpdateReputation(UpdateReputation(s3, buyer_rep, "Successful"),
                        seller_rep, "Successful"))

\* ------------------------------------------- instructions/refund_buyer.rs
\* The accounts are loaded in the order of the struct, the seller
\* (`SystemAccount`) after the escrow and before the optional reputation
\* accounts; the constraints are checked once all of them are loaded.
refund_buyer(s, escrow, buyer, seller, buyer_rep, seller_rep) ==
    IF escrow \notin DOMAIN s.escrows THEN Fail("AccountNotInitialized", s)
    ELSE IF ~SystemOwned(s, seller) THEN Fail("AccountNotSystemOwned", s)
    ELSE IF ReputationMissing(s, buyer_rep) \/ ReputationMissing(s, seller_rep)
    THEN Fail("AccountNotInitialized", s)
    ELSE
    LET e == s.escrows[escrow] IN
    IF escrow # EscrowPda(buyer, seller) THEN Fail("ConstraintSeeds", s)
    ELSE IF e.buyer # buyer \/ e.seller # seller THEN Fail("ConstraintHasOne", s)
    ELSE IF ReputationSeedsBad(buyer_rep, buyer)
            \/ ReputationSeedsBad(seller_rep, seller)
    THEN Fail("ConstraintSeeds", s)
    ELSE IF ~(e.status = "Disputed") THEN Fail("InvalidState", s)
    ELSE
    LET escrow_rent_reserve == RentExempt
        escrow_lamports == e.lamports IN
    IF ~(escrow_lamports > escrow_rent_reserve) THEN Fail("InsufficientFunds", s)
    ELSE
    LET s1 == [s EXCEPT !.escrows[escrow].lamports = escrow_rent_reserve]
        credit == checked_add(s1.lamports[buyer],
                              escrow_lamports - escrow_rent_reserve) IN
    IF ~credit.some THEN Fail("Overflow", s1)
    ELSE
    LET s2 == [s1 EXCEPT !.lamports[buyer] = credit.val,
                         !.escrows[escrow].status = "Cancelled"] IN
    Ok(UpdateReputation(UpdateReputation(s2, buyer_rep, "Failed"),
                        seller_rep, "Failed"))

\* ---------------------------------------- instructions/resolve_dispute.rs
\* Mutant: Split pays the rounded-down half to both parties.
Payout_equal_halves(resolution, amount) ==
    IF resolution = "FavorBuyer"
    THEN [err |-> "Ok", buyer |-> amount, seller |-> 0]
    ELSE IF resolution = "FavorSeller"
    THEN [err |-> "Ok", buyer |-> 0, seller |-> amount]
    ELSE
    LET half_amount == checked_div(amount, 2) IN
    IF ~half_amount.some THEN [err |-> "Overflow", buyer |-> 0, seller |-> 0]
    ELSE
    LET remainder == checked_sub(amount, half_amount.val) IN
    IF ~remainder.some THEN [err |-> "Overflow", buyer |-> 0, seller |-> 0]
    ELSE [err |-> "Ok", buyer |-> half_amount.val, seller |-> half_amount.val]

\* What each resolution pays: [err, buyer, seller].
Payout(resolution, amount) ==
    IF resolution = "FavorBuyer"
    THEN [err |-> "Ok", buyer |-> amount, seller |-> 0]
    ELSE IF resolution = "FavorSeller"
    THEN [err |-> "Ok", buyer |-> 0, seller |-> amount]
    ELSE
    LET half_amount == checked_div(amount, 2) IN
    IF ~half_amount.some THEN [err |-> "Overflow", buyer |-> 0, seller |-> 0]
    ELSE
    LET remainder == checked_sub(amount, half_amount.val) IN
    IF ~remainder.some THEN [err |-> "Overflow", buyer |-> 0, seller |-> 0]
    ELSE [err |-> "Ok", buyer |-> half_amount.val, seller |-> remainder.val]

\* The reputation update of each party under a resolution.
BuyerOutcome(resolution) ==
    IF resolution = "FavorBuyer" THEN "Successful" ELSE "Failed"
SellerOutcome(resolution) ==
    IF resolution = "FavorSeller" THEN "Successful" ELSE "Failed"

resolve_dispute(s, escrow, arbiter, arbiter_account, buyer, seller, buyer_rep, seller_rep, resolution) ==
    IF escrow \notin DOMAIN s.escrows THEN Fail("AccountNotInitialized", s)
    ELSE IF arbiter_account \notin DOMAIN s.arbiters
    THEN Fail("AccountNotInitialized", s)
    ELSE IF ReputationMissing(s, buyer_rep) \/ ReputationMissing(s, seller_rep)
    THEN Fail("AccountNotInitialized", s)
    ELSE
    LET e == s.escrows[escrow] IN
    IF escrow # EscrowPda(buyer, seller) THEN Fail("ConstraintSeeds", s)
    ELSE IF ~(e.status = "Disputed") THEN Fail("InvalidState", s)
    ELSE IF arbiter_account # arbiter THEN Fail("ConstraintSeeds", s)
    ELSE IF ~can_resolve_disputes(s.arbiters[arbiter_account])
    THEN Fail("UnauthorizedArbiter", s)
    ELSE IF ReputationSeedsBad(buyer_rep, buyer)
            \/ ReputationSeedsBad(seller_rep, seller)
    THEN Fail("ConstraintSeeds", s)
    ELSE
    LET amount == e.amount
        pay == Payout(resolution, amount) IN
    IF pay.err # "Ok" THEN Fail(pay.err, s)
    ELSE
    LET debit == checked_sub(e.lamports, amount) IN
    IF ~debit.some THEN Fail("InsufficientFunds", s)
    ELSE
    LET s1 == [s EXCEPT !.escrows[escrow].lamports = debit.val]
        to_buyer == checked_add(s1.lamports[buyer], pay.buyer) IN
    IF resolution # "FavorSeller" /\ ~to_buyer.some THEN Fail("Overflow", s1)
    ELSE
    LET s2 == IF resolution = "FavorSeller" THEN s1
              ELSE [s1 EXCEPT !.lamports[buyer] = to_buyer.val]
        to_seller == checked_add(Lamports(s2, seller), pay.seller) IN
    IF resolution # "FavorBuyer" /\ ~to_seller.some THEN Fail("Overflow", s2)
    ELSE
    LET s3 == IF resolution = "FavorBuyer" THEN s2
              ELSE SetLamports(s2, seller, to_seller.val)
        s4 == [s3 EXCEPT !.escrows[escrow].status = "Completed"] IN
    Ok(UpdateReputation(UpdateReputation(s4, buyer_rep, BuyerOutcome(resolution)),
                        seller_rep, SellerOutcome(resolution)))

\* ------------------------------------------------------------ input sets
\* An address no escrow account can ever be created at (buyer = seller).
MissingEscrow == EscrowPda("carol", "carol")
\* The escrow accounts a caller passes: any that exists, or one that does not.
EscrowInputs == (DOMAIN escrows) \cup {MissingEscrow}
\* The accounts passed in the buyer and seller slots beside an escrow
\* account: the pair its address derives from, or that pair swapped.
PartyInputs(escrow) == {escrow, <<escrow[2], escrow[1]>>}
SellerInputs(escrow) == {escrow[1], escrow[2]}
\* An optional reputation account: left out, or the owner's once it exists;
\* or any of: left out, the owner's (existing or not), another user's.
RepInputs(owner) == {NoAccount} \cup ({owner} \cap DOMAIN reputations)
WrongRepInputs(owner, other) == {NoAccount, owner, other}
\* The config and fee collector slots: each left out or supplied, and a
\* wallet in place of the fee collector PDA.
FeeSlotInputs == {<<FALSE, NoAccount>>, <<TRUE, NoAccount>>,
                  <<FALSE, FEE_COLLECTOR_SEED>>, <<TRUE, FEE_COLLECTOR_SEED>>,
                  <<TRUE, "carol">>}
\* The arbiter account passed by a signer: the signer's own PDA, or the
\* account of any registered arbiter.
ArbiterAccountInputs(arbiter) == {arbiter} \cup DOMAIN arbiters

\* ------------------------------------------------------------------ lib.rs
\* One transaction: the instruction's result is committed when it is Ok and
\* discarded otherwise (the entry point returns the handler's Result; the
\* discarding is the host ledger's, which runs each transaction atomically).
\* `last` records the transaction; a rejected transaction commits nothing, so
\* a behaviour is followed up to its first rejected transaction.
Committed(res) == IF res.err = "Ok" THEN res.st ELSE Ledger

TransactionWithin(limit, op, signer, arg, res) ==
    /\ last.err = "Ok"
    /\ txs < limit
    /\ LET st == Committed(res) IN
        /\ lamports' = st.lamports
        /\ escrows' = st.escrows
        /\ config' = st.config
        /\ fee_collector' = st.fee_collector
        /\ arbiters' = st.arbiters
        /\ reputations' = st.reputations
    /\ txs' = IF res.err = "Ok" THEN txs + 1 ELSE txs
    /\ last' = [op |-> op, err |-> res.err, signer |-> signer, arg |-> arg,
                dirty |-> res.st # Ledger]

Transaction(op, signer, arg, res) ==
    TransactionWithin(MaxTxs, op, signer, arg, res)

Init ==
    /\ lamports = InitialLamports
    /\ escrows = << >>
    /\ config = << >>
    /\ fee_collector = 0
    /\ arbiters = << >>
    /\ reputations = << >>
    /\ txs = 0
    /\ last = [op |-> "deploy", err |-> "Ok", signer |-> NoAccount,
               arg |-> NoAccount, dirty |-> FALSE]

InitializeReputation ==
    \E user \in Users :
        Transaction("initialize_reputation", user, user,
                    initialize_reputation(Ledger, user, user))

UpdateReputationTx ==
    \E authority \in AuthorityInputs, user \in Users, update \in ReputationUpdate :
        Transaction("update_reputation", authority, update,
                    update_reputation(Ledger, authority, user, update))

InitializeConfig ==
    \E admin \in AdminInputs, fee_basis_points \in FeeInputs :
        Transaction("initialize_config", admin, fee_basis_points,
                    initialize_config(Ledger, admin, fee_basis_points))

AddArbiter ==
    \E admin \in Users, arbiter \in ArbiterInputs :
        Transaction("add_arbiter", admin, arbiter,
                    add_arbiter(Ledger, unix_timestamp, admin, arbiter))

RemoveArbiter ==
    \E admin \in Users, arbiter_account \in ArbiterInputs :
        Transaction("remove_arbiter", admin, arbiter_account,
                    remove_arbiter(Ledger, admin, arbiter_account))

\* An instruction that is not one of the entry points of the #[program]
\* module: the dispatcher rejects it before any handler runs.  withdraw_fees
\* is such an instruction.
UnknownInstruction ==
    \E admin \in Users, amount \in WithdrawInputs :
        Transaction("withdraw_fees", admin, amount,
                    Fail("InstructionFallbackNotFound", Ledger))

CreateEscrow ==
    \E buyer \in Users, seller \in SellerSlotInputs, amount \in AmountInputs :
        Transaction("create_escrow", buyer, <<seller, amount>>,
                    create_escrow(Ledger, unix_timestamp, buyer, seller, amount))

CancelEscrow ==
    \E escrow \in EscrowInputs, buyer \in Users :
    \E seller \in SellerInputs(escrow) :
        Transaction("cancel_escrow", buyer, NoAccount,
                    cancel_escrow(Ledger, escrow, buyer, seller))

RaiseDispute ==
    \E escrow \in EscrowInputs, party \in Users :
    \E parties \in PartyInputs(escrow) :
        Transaction("raise_dispute", party, NoAccount,
                    raise_dispute(Ledger, escrow, party, parties[1],
                                  parties[2]))

ReleaseFunds ==
    \E escrow \in DOMAIN escrows, buyer \in Users :
    \E seller \in SellerInputs(escrow) :
    \E buyer_rep \in RepInputs(buyer), seller_rep \in RepInputs(seller),
       fee \in FeeSlotInputs, overflow_checks \in OverflowChecks :
        Transaction("release_funds", buyer, fee,
                    release_funds(Ledger, escrow, buyer, seller, buyer_rep,
                                  seller_rep, fee[1], fee[2],
                                  overflow_checks))

RefundBuyer ==
    \E escrow \in DOMAIN escrows, buyer \in Users :
    \E seller \in SellerInputs(escrow) :
    \E buyer_rep \in RepInputs(buyer),
       seller_rep \in WrongRepInputs(seller, buyer) :
        Transaction("refund_buyer", buyer, NoAccount,
                    refund_buyer(Ledger, escrow, buyer, seller, buyer_rep,
                                 seller_rep))

ResolveDispute ==
    \E escrow \in DOMAIN escrows, arbiter \in Users :
    \E arbiter_account \in ArbiterAccountInputs(arbiter),
       parties \in PartyInputs(escrow), resolution \in DisputeResolution :
    \E buyer_rep \in RepInputs(parties[1]),
       seller_rep \in RepInputs(parties[2]) :
        Transaction("resolve_dispute", arbiter, resolution,
                    resolve_dispute(Ledger, escrow, arbiter, arbiter_account,
                                    parties[1], parties[2], buyer_rep,
                                    seller_rep, resolution))

Next ==
    \/ InitializeReputation
    \/ UpdateReputationTx
    \/ InitializeConfig
    \/ AddArbiter
    \/ RemoveArbiter
    \/ UnknownInstruction
    \/ CreateEscrow
    \/ CancelEscrow
    \/ RaiseDispute
    \/ ReleaseFunds
    \/ RefundBuyer
    \/ ResolveDispute

Spec == Init /\ [][Next]_vars

\* ------------------------------------------------------ dispute scenario
\* The same instructions on one escrow (alice buys from bob, carol is admin
\* and arbiter), followed further: both parties can have a reputation
\* account, and the arbiter can have been removed, before the escrow is
\* settled.
ScenarioAmount == 25
ScenarioParties == {"alice", "bob"}
ScenarioEscrow == EscrowPda("alice", "bob")

ScenarioReputation ==
    \E user \in ScenarioParties :
        TransactionWithin(MaxDisputeTxs, "initialize_reputation", user, user,
                          initialize_reputation(Ledger, user, user))

ScenarioConfig ==
    TransactionWithin(MaxDisputeTxs, "initialize_config", "carol",
                      MAX_FEE_BASIS_POINTS,
                      initialize_config(Ledger, "carol", MAX_FEE_BASIS_POINTS))

ScenarioArbiter ==
    TransactionWithin(MaxDisputeTxs, "add_arbiter", "carol", "carol",
                      add_arbiter(Ledger, unix_timestamp, "carol", "carol"))

ScenarioRemove ==
    TransactionWithin(MaxDisputeTxs, "remove_arbiter", "carol", "carol",
                      remove_arbiter(Ledger, "carol", "carol"))

ScenarioCreate ==
    TransactionWithin(MaxDisputeTxs, "create_escrow", "alice",
                      <<"bob", ScenarioAmount>>,
                      create_escrow(Ledger, unix_timestamp, "alice", "bob",
                                    ScenarioAmount))

ScenarioDispute ==
    \E party \in ScenarioParties :
        TransactionWithin(MaxDisputeTxs, "raise_dispute", party, NoAccount,
                          raise_dispute(Ledger, ScenarioEscrow, party,
                                        "alice", "bob"))

ScenarioCancel ==
    TransactionWithin(MaxDisputeTxs, "cancel_escrow", "alice", NoAccount,
                      cancel_escrow(Ledger, ScenarioEscrow, "alice", "bob"))

ScenarioRelease ==
    \E buyer_rep \in RepInputs("alice"), seller_rep \in RepInputs("bob"),
       fee \in FeeSlotInputs, overflow_checks \in OverflowChecks :
        TransactionWithin(MaxDisputeTxs, "release_funds", "alice", fee,
                          release_funds(Ledger, ScenarioEscrow, "alice", "bob",
                                        buyer_rep, seller_rep, fee[1], fee[2],
                                        overflow_checks))

ScenarioRefund ==
    \E buyer_rep \in RepInputs("alice"), seller_rep \in RepInputs("bob") :
        TransactionWithin(MaxDisputeTxs, "refund_buyer", "alice", NoAccount,
                          refund_buyer(Ledger, ScenarioEscrow, "alice", "bob",
                                       buyer_rep, seller_rep))

ScenarioResolve ==
    \E resolution \in DisputeResolution :
    \E buyer_rep \in RepInputs("alice"), seller_rep \in RepInputs("bob") :
        TransactionWithin(MaxDisputeTxs, "resolve_dispute", "carol", resolution,
                          resolve_dispute(Ledger, ScenarioEscrow, "carol",
                                          "carol", "alice", "bob", buyer_rep,
                                          seller_rep, resolution))

DisputeNext ==
    \/ ScenarioReputation
    \/ ScenarioConfig
    \/ ScenarioArbiter
    \/ ScenarioRemove
    \/ ScenarioCreate
    \/ ScenarioDispute
    \/ ScenarioCancel
    \/ ScenarioRelease
    \/ ScenarioRefund
    \/ ScenarioResolve

DisputeSpec == Init /\ [][DisputeNext]_vars

\* ------------------------------------------- program account as seller
\* Two escrows of the same buyer: alice buys from bob, and alice buys from
\* the account at the address of that first escrow, which create_escrow
\* accepts as a seller like any other account.  The second escrow is created
\* once the first exists, so that its seller is an account of this program
\* throughout.  carol is admin and arbiter.
VaultSellers ==
    {"bob"} \cup (IF ProgramAccountKey \in DOMAIN escrows
                  THEN {ProgramAccount} ELSE {})
VaultAmounts == {MIN_ESCROW_AMOUNT, ScenarioAmount}

VaultConfig ==
    TransactionWithin(MaxVaultTxs, "initialize_config", "carol",
                      MAX_FEE_BASIS_POINTS,
                      initialize_config(Ledger, "carol", MAX_FEE_BASIS_POINTS))

VaultArbiter ==
    TransactionWithin(MaxVaultTxs, "add_arbiter", "carol", "carol",
                      add_arbiter(Ledger, unix_timestamp, "carol", "carol"))

VaultRemove ==
    TransactionWithin(MaxVaultTxs, "remove_arbiter", "carol", "carol",
                      remove_arbiter(Ledger, "carol", "carol"))

VaultCreate ==
    \E seller \in VaultSellers, amount \in VaultAmounts :
        TransactionWithin(MaxVaultTxs, "create_escrow", "alice",
                          <<seller, amount>>,
                          create_escrow(Ledger, unix_timestamp, "alice",
                                        seller, amount))

VaultDispute ==
    \E escrow \in DOMAIN escrows, party \in ScenarioParties :
        TransactionWithin(MaxVaultTxs, "raise_dispute", party, escrow,
                          raise_dispute(Ledger, escrow, party, escrow[1],
                                        escrow[2]))

VaultCancel ==
    \E escrow \in DOMAIN escrows :
        TransactionWithin(MaxVaultTxs, "cancel_escrow", "alice", escrow,
                          cancel_escrow(Ledger, escrow, escrow[1], escrow[2]))

VaultRelease ==
    \E escrow \in DOMAIN escrows, fee \in FeeSlotInputs,
       overflow_checks \in OverflowChecks :
        TransactionWithin(MaxVaultTxs, "release_funds", "alice", escrow,
                          release_funds(Ledger, escrow, escrow[1], escrow[2],
                                        NoAccount, NoAccount, fee[1], fee[2],
                                        overflow_checks))

VaultRefund ==
    \E escrow \in DOMAIN escrows :
        TransactionWithin(MaxVaultTxs, "refund_buyer", "alice", escrow,
                          refund_buyer(Ledger, escrow, escrow[1], escrow[2],
                                       NoAccount, NoAccount))

VaultResolve ==
    \E escrow \in DOMAIN escrows, resolution \in DisputeResolution :
        TransactionWithin(MaxVaultTxs, "resolve_dispute", "carol", escrow,
                          resolve_dispute(Ledger, escrow, "carol", "carol",
                                          escrow[1], escrow[2], NoAccount,
                                          NoAccount, resolution))

VaultNext ==
    \/ VaultConfig
    \/ VaultArbiter
    \/ VaultRemove
    \/ VaultCreate
    \/ VaultDispute
    \/ VaultCancel
    \/ VaultRelease
    \/ VaultRefund
    \/ VaultResolve

VaultSpec == Init /\ [][VaultNext]_vars

\* ================================================================ claims
AB == EscrowPda("alice", "bob")
SettlementOps == {"release_funds", "cancel_escrow", "raise_dispute",
                  "refund_buyer", "resolve_dispute"}

\* C1: once an escrow's status is Completed or Cancelled, no transaction
\* (release_funds, cancel_escrow, raise_dispute, refund_buyer,
\* resolve_dispute, create_escrow, by any caller) changes its status again:
\* the record stays and keeps its status in every step.
C1_TerminalIsFinal ==
    [][\A k \in DOMAIN escrows :
          is_finalized(escrows[k])
          => /\ k \in DOMAIN escrows'
             /\ escrows'[k].status = escrows[k].status]_vars

\* A settlement instruction was tried on the only escrow, which is terminal.
C1_Witness ==
    /\ DOMAIN escrows = {AB}
    /\ is_finalized(escrows[AB])
    /\ last.op \in SettlementOps
    /\ last.err = "InvalidState"

\* C2: value leaves the vault of a Disputed escrow only through
\* resolve_dispute signed by an active arbiter; no transaction signed only by
\* the buyer or only by the seller lowers a Disputed escrow's lamports.
C2_DisputedNeedsArbiter ==
    [][\A k \in DOMAIN escrows :
          (/\ escrows[k].status = "Disputed"
           /\ escrows'[k].lamports < escrows[k].lamports)
          => /\ last'.op = "resolve_dispute"
             /\ last'.signer \in DOMAIN arbiters
             /\ arbiters[last'.signer].is_active]_vars

\* C3: a new escrow starts Active, and every change of status is one of
\* Active -> Completed (release_funds), Active -> Cancelled (cancel_escrow),
\* Active -> Disputed (raise_dispute), Disputed -> Completed
\* (resolve_dispute), Disputed -> Cancelled (refund_buyer).
LegalTransitions ==
    {<<"Active", "Completed", "release_funds">>,
     <<"Active", "Cancelled", "cancel_escrow">>,
     <<"Active", "Disputed", "raise_dispute">>,
     <<"Disputed", "Completed", "resolve_dispute">>,
     <<"Disputed", "Cancelled", "refund_buyer">>}

C3_OnlyLegalTransitions ==
    [][\A k \in DOMAIN escrows' :
          IF k \notin DOMAIN escrows
          THEN escrows'[k].status = "Active" /\ last'.op = "create_escrow"
          ELSE escrows'[k].status # escrows[k].status
               => <<escrows[k].status, escrows'[k].status, last'.op>>
                      \in LegalTransitions]_vars

\* A dispute was raised and then resolved by an arbiter.
C3_Witness ==
    /\ last.op = "resolve_dispute"
    /\ last.err = "Ok"
    /\ \E k \in DOMAIN escrows : escrows[k].status = "Completed"

\* C4: release_funds succeeds exactly when the escrow is Active and the
\* signer is its buyer (given the escrow's own seller account, optional
\* accounts that are left out or are the right ones); signed by the seller
\* or anyone else it fails; repeated by the buyer on the Completed escrow it
\* fails with InvalidState; a failing release_funds changes no balance,
\* status or reputation.  The calls are made on every ledger a committed
\* transaction has produced (a rejected one leaves the same ledger).
ReleaseWellFormed(escrow, seller, cfg, fee_acct) ==
    /\ seller = escrows[escrow].seller
    /\ cfg => CONFIG_SEED \in DOMAIN config
    /\ fee_acct \in {NoAccount, FEE_COLLECTOR_SEED}

C4_ReleaseCalls ==
    last.err = "Ok" =>
    \A escrow \in DOMAIN escrows, signer \in Users :
    \A seller \in SellerInputs(escrow), fee \in FeeSlotInputs :
    \A buyer_rep \in RepInputs(signer), seller_rep \in RepInputs(seller) :
    \A overflow_checks \in OverflowChecks :
        LET e == escrows[escrow]
            res == release_funds(Ledger, escrow, signer, seller, buyer_rep,
                                 seller_rep, fee[1], fee[2], overflow_checks)
            mine == ReleaseWellFormed(escrow, seller, fee[1], fee[2])
                    /\ signer = e.buyer
        IN  /\ res.err = "Ok" => e.status = "Active" /\ signer = e.buyer
            /\ (mine /\ e.status = "Active") => res.err = "Ok"
            /\ (mine /\ e.status = "Completed") => res.err = "InvalidState"

C4_ReleaseIffActiveBuyer ==
    /\ []C4_ReleaseCalls
    /\ [][(last'.op = "release_funds" /\ last'.err # "Ok")
          => UNCHANGED <<lamports, escrows, fee_collector, reputations>>]_vars

\* The buyer released the escrow and then tried to release it again.
C4_Witness ==
    /\ AB \in DOMAIN escrows
    /\ escrows[AB].status = "Completed"
    /\ escrows[AB].lamports = RentExempt
    /\ last.op = "release_funds"
    /\ last.signer = "alice"
    /\ last.err = "InvalidState"

\* C5: a successful release_funds, at any configured fee rate in [0, 1000]
\* basis points, lowers the escrow account by exactly escrow.amount, and what
\* the fee collector gains plus what the seller gains is escrow.amount;
\* nobody else's balance moves.
C5_ReleaseConserves ==
    [][(last'.op = "release_funds" /\ last'.err = "Ok")
       => /\ \E k \in DOMAIN escrows : escrows'[k] # escrows[k]
          /\ \A k \in DOMAIN escrows :
               escrows'[k] # escrows[k]
               => LET e == escrows[k]
                      fee == fee_collector' - fee_collector
                      paid == lamports'[e.seller] - lamports[e.seller]
                  IN  /\ escrows'[k].lamports = e.lamports - e.amount
                      /\ fee >= 0 /\ paid >= 0
                      /\ fee + paid = e.amount
                      /\ \A u \in Users \ {e.seller} :
                            lamports'[u] = lamports[u]
                      /\ CONFIG_SEED \in DOMAIN config
                         => config[CONFIG_SEED].fee_basis_points
                               \in 0..MAX_FEE_BASIS_POINTS]_vars

\* A release that charged a fee.
C5_Witness ==
    /\ last.op = "release_funds"
    /\ last.err = "Ok"
    /\ fee_collector > 0
    /\ \E k \in DOMAIN escrows : escrows[k].status = "Completed"

\* C6: a successful resolve_dispute lowers the escrow account by exactly
\* escrow.amount, sets the status Completed and pays FavorBuyer: all to the
\* buyer; FavorSeller: all to the seller; Split: amount \div 2 to the buyer
\* and the rest, the odd unit included, to the seller.
C6_ResolutionPayouts ==
    [][(last'.op = "resolve_dispute" /\ last'.err = "Ok")
       => /\ \E k \in DOMAIN escrows : escrows'[k] # escrows[k]
          /\ \A k \in DOMAIN escrows :
               escrows'[k] # escrows[k]
               => LET e == escrows[k]
                      to_buyer == lamports'[e.buyer] - lamports[e.buyer]
                      to_seller == lamports'[e.seller] - lamports[e.seller]
                      half == e.amount \div 2
                  IN  /\ escrows'[k].lamports = e.lamports - e.amount
                      /\ escrows'[k].status = "Completed"
                      /\ to_buyer + to_seller = e.amount
                      /\ last'.arg = "FavorBuyer"
                         => to_buyer = e.amount /\ to_seller = 0
                      /\ last'.arg = "FavorSeller"
                         => to_buyer = 0 /\ to_seller = e.amount
                      /\ last'.arg = "Split"
                         => to_buyer = half /\ to_seller = e.amount - half
                      /\ \A u \in Users \ {e.buyer, e.seller} :
                            lamports'[u] = lamports[u]
                      /\ fee_collector' = fee_collector]_vars

\* An odd amount was split.
C6_Witness ==
    /\ last.op = "resolve_dispute"
    /\ last.err = "Ok"
    /\ last.arg = "Split"
    /\ \E k \in DOMAIN escrows :
          /\ escrows[k].status = "Completed"
          /\ escrows[k].amount % 2 = 1

\* C7: resolve_dispute succeeds only when the signer's own Arbiter account
\* exists, names the signer and is active, and the escrow is Disputed; a
\* failing resolve_dispute (unregistered signer, removed arbiter, escrow not
\* Disputed) changes no escrow, balance or reputation.
C7_ResolveCalls ==
    last.err = "Ok" =>
    \A escrow \in DOMAIN escrows, arbiter \in Users :
    \A arbiter_account \in ArbiterAccountInputs(arbiter),
       parties \in PartyInputs(escrow), resolution \in DisputeResolution :
    \A buyer_rep \in RepInputs(parties[1]),
       seller_rep \in RepInputs(parties[2]) :
        resolve_dispute(Ledger, escrow, arbiter, arbiter_account, parties[1],
                        parties[2], buyer_rep, seller_rep, resolution).err = "Ok"
        => /\ arbiter \in DOMAIN arbiters
           /\ arbiters[arbiter].arbiter = arbiter
           /\ arbiters[arbiter].is_active
           /\ arbiter_account = arbiter
           /\ escrows[escrow].status = "Disputed"

C7_OnlyActiveArbiterResolves ==
    /\ []C7_ResolveCalls
    /\ [][(last'.op = "resolve_dispute" /\ last'.err # "Ok")
          => UNCHANGED <<lamports, escrows, fee_collector, reputations>>]_vars

\* An arbiter that was removed tried to resolve a dispute.
C7_Witness ==
    /\ last.op = "resolve_dispute"
    /\ last.err = "UnauthorizedArbiter"
    /\ last.signer \in DOMAIN arbiters
    /\ ~arbiters[last.signer].is_active
    /\ \E k \in DOMAIN escrows : escrows[k].status = "Disputed"

\* C9: create_escrow with an amount below MIN_ESCROW_AMOUNT or above
\* MAX_ESCROW_AMOUNT fails, leaves the buyer's balance as it was and creates
\* no escrow account: the pair has no record afterwards unless it had one
\* before the call.
AmountOutOfRange(amount) ==
    amount < MIN_ESCROW_AMOUNT \/ amount > MAX_ESCROW_AMOUNT

C9_OutOfRangeRejected ==
    [][(last'.op = "create_escrow" /\ AmountOutOfRange(last'.arg[2]))
       => /\ last'.err # "Ok"
          /\ lamports'[last'.signer] = lamports[last'.signer]
          /\ escrows' = escrows
          /\ EscrowPda(last'.signer, last'.arg[1]) \notin DOMAIN escrows
             => EscrowPda(last'.signer, last'.arg[1]) \notin DOMAIN escrows'
       ]_vars

\* An out-of-range amount was rejected after the account had been allocated.
C9_Witness ==
    /\ last.op = "create_escrow"
    /\ AmountOutOfRange(last.arg[2])
    /\ last.signer # last.arg[1]
    /\ last.err \in {"InsufficientFunds", "InvalidAmount"}
    /\ last.dirty

\* C10 as stated: create_escrow with buyer = seller fails with InvalidParties
\* for every amount, the amounts out of range included.
C10_AlwaysInvalidParties ==
    \A buyer \in Users, amount \in AmountInputs :
        create_escrow(Ledger, unix_timestamp, buyer, buyer, amount).err
            = "InvalidParties"

\* C10: create_escrow with buyer = seller always fails.  The error is
\* InvalidParties when the amount is in range; the amount is checked first,
\* so it is InsufficientFunds below MIN_ESCROW_AMOUNT and InvalidAmount above
\* MAX_ESCROW_AMOUNT (and the system's error when the buyer cannot fund the
\* account's rent).
SelfDealError(amount) ==
    IF amount < MIN_ESCROW_AMOUNT THEN "InsufficientFunds"
    ELSE IF amount > MAX_ESCROW_AMOUNT THEN "InvalidAmount"
    ELSE "InvalidParties"

C10_SelfDealCalls ==
    \A buyer \in Users, amount \in AmountInputs :
        LET res == create_escrow(Ledger, unix_timestamp, buyer, buyer, amount)
        IN  /\ res.err # "Ok"
            /\ lamports[buyer] >= RentExempt => res.err = SelfDealError(amount)

C10_SelfDealRejected ==
    /\ []C10_SelfDealCalls
    /\ [][(last'.op = "create_escrow" /\ last'.signer = last'.arg[1])
          => /\ last'.err # "Ok"
             /\ UNCHANGED <<lamports, escrows>>]_vars

\* A buyer named themselves as seller with an amount in range.
C10_Witness ==
    /\ last.op = "create_escrow"
    /\ last.signer = last.arg[1]
    /\ ~AmountOutOfRange(last.arg[2])
    /\ last.err = "InvalidParties"

\* C11: every escrow account that exists has buyer # seller and an amount
\* within [MIN_ESCROW_AMOUNT, MAX_ESCROW_AMOUNT], and no transaction after
\* its creation changes its buyer, seller or amount.
C11_RecordWellFormed ==
    \A k \in DOMAIN escrows :
        /\ escrows[k].buyer # escrows[k].seller
        /\ escrows[k].amount >= MIN_ESCROW_AMOUNT
        /\ escrows[k].amount <= MAX_ESCROW_AMOUNT
        /\ k = EscrowPda(escrows[k].buyer, escrows[k].seller)

C11_RecordFieldsFixed ==
    /\ []C11_RecordWellFormed
    /\ [][\A k \in DOMAIN escrows :
            /\ k \in DOMAIN escrows'
            /\ escrows'[k].buyer = escrows[k].buyer
            /\ escrows'[k].seller = escrows[k].seller
            /\ escrows'[k].amount = escrows[k].amount
            /\ escrows'[k].created_at = escrows[k].created_at]_vars

\* An escrow of the largest amount went through a dispute and a refund.
C11_Witness ==
    /\ AB \in DOMAIN escrows
    /\ escrows[AB].amount = MAX_ESCROW_AMOUNT
    /\ escrows[AB].status = "Cancelled"
    /\ last.op = "refund_buyer"
    /\ last.err = "Ok"

\* C12: a (buyer, seller) pair has at most one escrow account, for ever:
\* accounts are never removed, and create_escrow for a pair that has one
\* fails, whatever the status of the existing account (Completed and
\* Cancelled included), leaving that account and every balance unchanged.
C12_CreateCalls ==
    last.err = "Ok" =>
    \A k \in DOMAIN escrows, amount \in AmountInputs :
        create_escrow(Ledger, unix_timestamp, k[1], k[2], amount).err
            = "AccountAlreadyInUse"

C12_OneEscrowPerPair ==
    /\ []C12_CreateCalls
    /\ [][/\ DOMAIN escrows \subseteq DOMAIN escrows'
          /\ (/\ last'.op = "create_escrow"
              /\ EscrowPda(last'.signer, last'.arg[1]) \in DOMAIN escrows)
             => /\ last'.err # "Ok"
                /\ UNCHANGED <<lamports, escrows, fee_collector>>]_vars

\* create_escrow was tried again for a pair whose escrow is terminal.
C12_Witness ==
    /\ last.op = "create_escrow"
    /\ last.err = "AccountAlreadyInUse"
    /\ EscrowPda(last.signer, last.arg[1]) \in DOMAIN escrows
    /\ is_finalized(escrows[EscrowPda(last.signer, last.arg[1])])
    /\ ~AmountOutOfRange(last.arg[2])

\* C13: cancel_escrow succeeds only when signed by the escrow's buyer with
\* the status Initialized or Active; a successful one credits the buyer
\* escrow.amount, debits the escrow account escrow.amount and sets Cancelled;
\* the buyer's cancel_escrow on a Disputed, Completed or Cancelled escrow
\* fails with InvalidState; a failing one changes nothing.
C13_CancelCalls ==
    last.err = "Ok" =>
    \A escrow \in DOMAIN escrows, signer \in Users :
    \A seller \in SellerInputs(escrow) :
        LET e == escrows[escrow]
            res == cancel_escrow(Ledger, escrow, signer, seller)
            mine == signer = e.buyer /\ seller = e.seller
        IN  /\ res.err = "Ok"
               => signer = e.buyer /\ e.status \in {"Initialized", "Active"}
            /\ (mine /\ e.status = "Active") => res.err = "Ok"
            /\ (mine /\ e.status \in {"Disputed", "Completed", "Cancelled"})
               => res.err = "InvalidState"

C13_CancelStep ==
    IF last'.err = "Ok"
    THEN /\ \E k \in DOMAIN escrows : escrows'[k] # escrows[k]
         /\ \A k \in DOMAIN escrows :
              escrows'[k] # escrows[k]
              => LET e == escrows[k] IN
                 /\ last'.signer = e.buyer
                 /\ lamports' = [lamports EXCEPT ![e.buyer] = @ + e.amount]
                 /\ escrows'[k].lamports = e.lamports - e.amount
                 /\ escrows'[k].status = "Cancelled"
                 /\ fee_collector' = fee_collector
    ELSE UNCHANGED <<lamports, escrows, fee_collector, reputations>>

C13_CancelOnlyWhileOpen ==
    /\ []C13_CancelCalls
    /\ [][last'.op = "cancel_escrow" => C13_CancelStep]_vars

\* The buyer tried to cancel the escrow under dispute.
C13_Witness ==
    /\ AB \in DOMAIN escrows
    /\ escrows[AB].status = "Disputed"
    /\ last.op = "cancel_escrow"
    /\ last.signer = "alice"
    /\ last.err = "InvalidState"

\* C14: raise_dispute succeeds only when signed by the escrow's buyer or
\* seller with the status Active; a successful one sets Disputed and changes
\* no balance, amount or reputation; signed by anyone else it fails with
\* Unauthorized; signed by a party on an escrow that is not Active it fails
\* with InvalidState.
C14_DisputeCalls ==
    last.err = "Ok" =>
    \A escrow \in DOMAIN escrows, party \in Users :
    \A parties \in PartyInputs(escrow) :
        LET e == escrows[escrow]
            res == raise_dispute(Ledger, escrow, party, parties[1], parties[2])
            is_party == party \in {e.buyer, e.seller}
            own == parties = <<e.buyer, e.seller>>
        IN  /\ res.err = "Ok" => is_party /\ e.status = "Active"
            /\ (own /\ is_party /\ e.status = "Active") => res.err = "Ok"
            /\ (own /\ ~is_party) => res.err = "Unauthorized"
            /\ (own /\ is_party /\ e.status # "Active")
               => res.err = "InvalidState"

C14_DisputeStep ==
    IF last'.err = "Ok"
    THEN /\ \E k \in DOMAIN escrows : escrows'[k] # escrows[k]
         /\ \A k \in DOMAIN escrows :
              escrows'[k] # escrows[k]
              => /\ last'.signer \in {escrows[k].buyer, escrows[k].seller}
                 /\ escrows[k].status = "Active"
                 /\ escrows'[k] = [escrows[k] EXCEPT !.status = "Disputed"]
         /\ UNCHANGED <<lamports, fee_collector, reputations>>
    ELSE UNCHANGED <<lamports, escrows, fee_collector, reputations>>

C14_DisputeOnlyByPartyWhileActive ==
    /\ []C14_DisputeCalls
    /\ [][last'.op = "raise_dispute" => C14_DisputeStep]_vars

\* The seller raised a dispute on the Active escrow.
C14_Witness ==
    /\ AB \in DOMAIN escrows
    /\ escrows[AB].status = "Disputed"
    /\ last.op = "raise_dispute"
    /\ last.signer = "bob"
    /\ last.err = "Ok"

\* The parties of an escrow that have a reputation account.
RatedParties(e) == {e.buyer, e.seller} \cap DOMAIN reputations
\* A reputation account after one more successful / failed trade.
OneMoreSuccess(r) ==
    [r EXCEPT !.successful_trades = saturating_add(@, 1)]
OneMoreFailure(r) ==
    [r EXCEPT !.failed_trades = saturating_add(@, 1)]
\* The escrows a step moves into a terminal status.
Settled(k) ==
    /\ k \in DOMAIN escrows
    /\ ~is_finalized(escrows[k])
    /\ is_finalized(escrows'[k])

\* C15: refund_buyer succeeds only on a Disputed escrow; a successful one
\* credits the buyer the escrow account's balance above the rent reserve,
\* leaves the escrow account holding exactly the reserve, sets Cancelled and
\* adds one failed trade to each reputation account that exists for the
\* buyer and the seller; a failing one changes nothing.
C15_RefundStep ==
    IF last'.err = "Ok"
    THEN /\ \E k \in DOMAIN escrows : escrows'[k] # escrows[k]
         /\ \A k \in DOMAIN escrows :
              escrows'[k] # escrows[k]
              => LET e == escrows[k] IN
                 /\ e.status = "Disputed"
                 /\ lamports' = [lamports EXCEPT
                                   ![e.buyer] = @ + (e.lamports - RentExempt)]
                 /\ escrows'[k].lamports = RentExempt
                 /\ escrows'[k].status = "Cancelled"
                 /\ \A u \in RatedParties(e) :
                       reputations'[u] = OneMoreFailure(reputations[u])
    ELSE UNCHANGED <<lamports, escrows, fee_collector, reputations>>

C15_RefundMarksBothParties ==
    [][last'.op = "refund_buyer" => C15_RefundStep]_vars

\* C16: a successful resolve_dispute changes the reputation accounts that
\* exist for the parties in this way and no other: FavorBuyer, buyer one
\* more success and seller one more failure; FavorSeller, seller one more
\* success and buyer one more failure; Split, one more failure each.
C16_ResolveStep ==
    \A k \in DOMAIN escrows :
        escrows'[k] # escrows[k]
        => LET e == escrows[k]
               good == IF last'.arg = "FavorBuyer" THEN {e.buyer}
                       ELSE IF last'.arg = "FavorSeller" THEN {e.seller}
                       ELSE {}
           IN  \A u \in DOMAIN reputations :
                  reputations'[u] =
                      IF u \notin {e.buyer, e.seller} THEN reputations[u]
                      ELSE IF u \in good THEN OneMoreSuccess(reputations[u])
                      ELSE OneMoreFailure(reputations[u])

C16_ResolutionReputation ==
    [][(last'.op = "resolve_dispute" /\ last'.err = "Ok")
       => C16_ResolveStep]_vars

\* C17: every step that moves an escrow into Completed or Cancelled adds one
\* to exactly one counter of each reputation account that exists for the
\* escrow's buyer and seller.
C17_TerminalStepRatesParties ==
    [][\A k \in DOMAIN escrows :
          Settled(k)
          => \A u \in RatedParties(escrows[k]) :
                reputations'[u] \in {OneMoreSuccess(reputations[u]),
                                     OneMoreFailure(reputations[u])}]_vars

\* C18: the counters of a reputation account change only in a step that
\* moves an escrow of that user into a terminal status.
C18_ReputationOnlyBySettlement ==
    [][\A u \in DOMAIN reputations :
          reputations'[u] # reputations[u]
          => \E k \in DOMAIN escrows :
                /\ Settled(k)
                /\ u \in {escrows[k].buyer, escrows[k].seller}]_vars

\* C19: the counters of a reputation account never decrease and never wrap:
\* an increment of a counter at the largest value leaves it there and
\* succeeds; below it the counter goes up by one.
Bumped(n) == IF n = COUNTER_MAX THEN COUNTER_MAX ELSE n + 1

C19_IncrementCalls ==
    last.err = "Ok" =>
    \A user \in DOMAIN reputations, authority \in AuthorityInputs :
        LET r == reputations[user]
            good == update_reputation(Ledger, authority, user, "Successful")
            bad == update_reputation(Ledger, authority, user, "Failed")
        IN  /\ good.err = "Ok" /\ bad.err = "Ok"
            /\ good.st.reputations[user] =
                 [r EXCEPT !.successful_trades = Bumped(@)]
            /\ bad.st.reputations[user] =
                 [r EXCEPT !.failed_trades = Bumped(@)]

C19_CountersSaturate ==
    /\ []C19_IncrementCalls
    /\ [][\A u \in DOMAIN reputations :
            /\ u \in DOMAIN reputations'
            /\ reputations'[u].successful_trades
                 >= reputations[u].successful_trades
            /\ reputations'[u].failed_trades >= reputations[u].failed_trades
            /\ reputations'[u].successful_trades <= COUNTER_MAX
            /\ reputations'[u].failed_trades <= COUNTER_MAX]_vars

\* Alice's account was created and then given COUNTER_MAX + 1 successful
\* trades, nothing else having happened: the last one found the counter full.
C19_Witness ==
    /\ DOMAIN reputations = {"alice"}
    /\ DOMAIN escrows = {} /\ DOMAIN config = {}
    /\ txs = COUNTER_MAX + 2
    /\ reputations["alice"].successful_trades = COUNTER_MAX
    /\ reputations["alice"].failed_trades = 0
    /\ last.op = "update_reputation"
    /\ last.err = "Ok"

\* C20: when the reputation account of the buyer or of the seller does not
\* exist (and its slot is left out), release_funds, refund_buyer and
\* resolve_dispute succeed with the status change and the transfers they
\* make when both accounts exist; the accounts that exist get the same
\* update, and no account is created.
\* The slot a caller fills for a user: the account if it exists.
Present(u) == IF u \in DOMAIN reputations THEN u ELSE NoAccount
\* The same ledger with a fresh reputation account for each party lacking one.
WithRecords(e) ==
    [Ledger EXCEPT !.reputations =
        [u \in (DOMAIN reputations) \cup {e.buyer, e.seller} |->
            IF u \in DOMAIN reputations THEN reputations[u]
            ELSE [ZeroReputation EXCEPT !.user = u]]]

SameSettlement(res, full) ==
    /\ res.err = "Ok"
    /\ full.err = "Ok"
    /\ res.st.escrows = full.st.escrows
    /\ res.st.lamports = full.st.lamports
    /\ res.st.fee_collector = full.st.fee_collector
    /\ DOMAIN res.st.reputations = DOMAIN reputations
    /\ \A u \in DOMAIN reputations :
          res.st.reputations[u] = full.st.reputations[u]

C20_SettlementCalls ==
    last.err = "Ok" =>
    \A k \in DOMAIN escrows :
        LET e == escrows[k]
            b == Present(e.buyer)
            s == Present(e.seller)
            full == WithRecords(e)
        IN  (b = NoAccount \/ s = NoAccount)
            => /\ e.status = "Active"
                  => \A fee \in FeeSlotInputs, oc \in OverflowChecks :
                        ReleaseWellFormed(k, e.seller, fee[1], fee[2])
                        => SameSettlement(
                             release_funds(Ledger, k, e.buyer, e.seller, b, s,
                                           fee[1], fee[2], oc),
                             release_funds(full, k, e.buyer, e.seller,
                                           e.buyer, e.seller, fee[1], fee[2],
                                           oc))
               /\ e.status = "Disputed"
                  => /\ SameSettlement(
                          refund_buyer(Ledger, k, e.buyer, e.seller, b, s),
                          refund_buyer(full, k, e.buyer, e.seller,
                                       e.buyer, e.seller))
                     /\ \A a \in DOMAIN arbiters, r \in DisputeResolution :
                           arbiters[a].is_active
                           => SameSettlement(
                                resolve_dispute(Ledger, k, a, a, e.buyer,
                                                e.seller, b, s, r),
                                resolve_dispute(full, k, a, a, e.buyer,
                                                e.seller, e.buyer, e.seller, r))

C20_MissingRecordSkipped ==
    /\ []C20_SettlementCalls
    /\ [][last'.op \in {"release_funds", "refund_buyer", "resolve_dispute"}
          => DOMAIN reputations' = DOMAIN reputations]_vars

\* A dispute was resolved with the buyer's account updated and the seller
\* having none.
C20_Witness ==
    /\ last.op = "resolve_dispute"
    /\ last.err = "Ok"
    /\ DOMAIN reputations = {"alice"}
    /\ reputations["alice"].successful_trades
         + reputations["alice"].failed_trades = 1
    /\ escrows[ScenarioEscrow].status = "Completed"

\* C21: initialize_config with a fee above MAX_FEE_BASIS_POINTS fails with
\* FeeTooHigh and leaves no configuration behind, a fee of exactly
\* MAX_FEE_BASIS_POINTS is accepted, and the fee of a configuration that
\* exists is always between 0 and MAX_FEE_BASIS_POINTS.
C21_ConfigCalls ==
    last.err = "Ok" =>
    (CONFIG_SEED \notin DOMAIN config =>
     \A admin \in Users :
        lamports[admin] >= RentExempt
        => LET hi == initialize_config(Ledger, admin, MAX_FEE_BASIS_POINTS + 1)
               top == initialize_config(Ledger, admin, MAX_FEE_BASIS_POINTS)
           IN  /\ hi.err = "FeeTooHigh"
               /\ Committed(hi) = Ledger
               /\ top.err = "Ok"
               /\ top.st.config[CONFIG_SEED] =
                    [admin |-> admin,
                     fee_basis_points |-> MAX_FEE_BASIS_POINTS])

C21_FeeWithinLimit ==
    /\ []C21_ConfigCalls
    /\ [](\A c \in DOMAIN config :
            /\ config[c].fee_basis_points >= 0
            /\ config[c].fee_basis_points <= MAX_FEE_BASIS_POINTS)
    /\ [][(last'.op = "initialize_config" /\ last'.arg > MAX_FEE_BASIS_POINTS)
          => /\ last'.err # "Ok"
             /\ config' = config
             /\ lamports' = lamports]_vars

\* A fee one above the limit was offered for the first configuration: the
\* account had been created when the handler refused the fee.
C21_Witness ==
    /\ last.op = "initialize_config"
    /\ last.err = "FeeTooHigh"
    /\ last.arg = MAX_FEE_BASIS_POINTS + 1
    /\ last.dirty
    /\ DOMAIN config = {}

\* C22: the configuration is created at most once: once it exists every
\* initialize_config fails, and its admin and fee never change.
C22_BootstrapCalls ==
    last.err = "Ok" =>
    (CONFIG_SEED \in DOMAIN config =>
     \A admin \in Users, fee \in FeeInputs :
        LET again == initialize_config(Ledger, admin, fee) IN
        /\ again.err = "AccountAlreadyInUse"
        /\ again.st = Ledger)

C22_ConfigFixed ==
    /\ []C22_BootstrapCalls
    /\ [](DOMAIN config \subseteq {CONFIG_SEED})
    /\ [][(CONFIG_SEED \in DOMAIN config) => (config' = config)]_vars

\* A second initialize_config was sent, with another fee, and rejected.
C22_Witness ==
    /\ last.op = "initialize_config"
    /\ last.err = "AccountAlreadyInUse"
    /\ CONFIG_SEED \in DOMAIN config
    /\ config[CONFIG_SEED].fee_basis_points # last.arg

\* C23: add_arbiter and remove_arbiter succeed only for the signer stored as
\* config.admin; a call by any other signer fails with Unauthorized and
\* changes nothing (when the arbiter account itself is in the wrong state,
\* the record existing already for add_arbiter or missing for remove_arbiter,
\* the call of the other signer fails on that account instead); a successful
\* remove_arbiter only sets is_active to false, the other fields of the
\* arbiter and the rest of the ledger staying as they were.
C23_ArbiterCalls ==
    last.err = "Ok" =>
    (CONFIG_SEED \in DOMAIN config =>
     \A u \in Users, a \in ArbiterInputs :
        LET add == add_arbiter(Ledger, unix_timestamp, u, a)
            rem == remove_arbiter(Ledger, u, a)
            admin == config[CONFIG_SEED].admin
        IN  /\ add.err = "Ok" => u = admin
            /\ rem.err = "Ok" => u = admin
            /\ (u # admin /\ a \notin DOMAIN arbiters
                  /\ lamports[u] >= RentExempt)
               => /\ add.err = "Unauthorized"
                  /\ Committed(add) = Ledger
                  /\ rem.err = "AccountNotInitialized"
            /\ (u # admin /\ a \in DOMAIN arbiters)
               => /\ rem.err = "Unauthorized"
                  /\ rem.st = Ledger
                  /\ add.err = "AccountAlreadyInUse"
            /\ (u = admin /\ a \in DOMAIN arbiters)
               => /\ rem.err = "Ok"
                  /\ rem.st = [Ledger EXCEPT !.arbiters[a].is_active = FALSE])

C23_OnlyAdminManagesArbiters ==
    /\ []C23_ArbiterCalls
    /\ [][arbiters' # arbiters
          => /\ last'.op \in {"add_arbiter", "remove_arbiter"}
             /\ last'.err = "Ok"
             /\ CONFIG_SEED \in DOMAIN config
             /\ last'.signer = config[CONFIG_SEED].admin]_vars
    /\ [][(last'.op = "remove_arbiter" /\ last'.err = "Ok")
          => /\ arbiters' =
                  [arbiters EXCEPT ![last'.arg].is_active = FALSE]
             /\ UNCHANGED <<lamports, escrows, config, fee_collector,
                            reputations>>]_vars

\* Somebody who is not the admin tried to register an arbiter: the account
\* had been created and paid for when the admin check refused the signer.
C23_Witness ==
    /\ last.op = "add_arbiter"
    /\ last.err = "Unauthorized"
    /\ last.dirty
    /\ last.signer # config[CONFIG_SEED].admin
    /\ last.arg \notin DOMAIN arbiters

\* C24 as stated: a withdraw_fees transaction has the outcome of the
\* handler: Unauthorized for a signer who is not config.admin,
\* InsufficientFunds for the admin asking for more than the balance of the
\* fee collector, and otherwise the amount moved from the fee collector to
\* the admin with nothing else changed.
C24_WithdrawAsSpecified ==
    [][(last'.op = "withdraw_fees" /\ CONFIG_SEED \in DOMAIN config)
       => LET w == withdraw_fees(Ledger, last'.signer, last'.arg)
              admin == config[CONFIG_SEED].admin
          IN  /\ last'.signer # admin => last'.err = "Unauthorized"
              /\ (last'.signer = admin /\ last'.arg > fee_collector)
                 => last'.err = "InsufficientFunds"
              /\ (last'.signer = admin /\ last'.arg <= fee_collector)
                 => /\ last'.err = "Ok"
                    /\ fee_collector' = w.st.fee_collector
                    /\ lamports' = w.st.lamports]_vars

\* C25: when release_funds charges a fee, the fee is the product of
\* escrow.amount and config.fee_basis_points divided by BASIS_POINTS_DIVISOR
\* and rounded down, the seller gets the amount less the fee, and for every
\* escrow that exists the product fits the unsigned range, so that no
\* release fails in its arithmetic.
ArithmeticErrors == {"InsufficientFunds", "ArithmeticPanic"}

C25_FeeCalls ==
    last.err = "Ok" =>
    (CONFIG_SEED \in DOMAIN config =>
     \A k \in DOMAIN escrows, overflow_checks \in OverflowChecks :
        LET e == escrows[k]
            bp == config[CONFIG_SEED].fee_basis_points
            fee == FeeAmount(e.amount, bp)
            r == release_funds(Ledger, k, e.buyer, e.seller, NoAccount,
                               NoAccount, TRUE, FEE_COLLECTOR_SEED,
                               overflow_checks)
        IN  /\ e.amount * bp <= U64_MAX
            /\ fee = Some((e.amount * bp) \div BASIS_POINTS_DIVISOR)
            /\ e.status = "Active"
               => /\ r.err = "Ok"
                  /\ r.st.fee_collector = fee_collector + fee.val
                  /\ r.st.lamports[e.seller] =
                       lamports[e.seller] + (e.amount - fee.val))

C25_FeeRoundedDown ==
    /\ []C25_FeeCalls
    /\ [][last'.op = "release_funds"
          => /\ last'.err \notin ArithmeticErrors
             /\ (last'.err = "Ok" /\ ChargesFee(last'.arg[1], last'.arg[2]))
                => \A k \in DOMAIN escrows :
                      escrows'[k] # escrows[k]
                      => LET fee == (escrows[k].amount
                                       * config[CONFIG_SEED].fee_basis_points)
                                    \div BASIS_POINTS_DIVISOR
                         IN  /\ fee_collector' = fee_collector + fee
                             /\ lamports'[escrows[k].seller] =
                                  lamports[escrows[k].seller]
                                    + (escrows[k].amount - fee)]_vars

\* An escrow of 25 was released at the highest fee: 2.5 rounded down to 2
\* went to the fee collector and 23 to the seller.
C25_Witness ==
    /\ last.op = "release_funds"
    /\ last.err = "Ok"
    /\ last.arg = <<TRUE, FEE_COLLECTOR_SEED>>
    /\ config[CONFIG_SEED].fee_basis_points = MAX_FEE_BASIS_POINTS
    /\ fee_collector = 2
    /\ AB \in DOMAIN escrows
    /\ escrows[AB].amount = 25
    /\ lamports["bob"] = SmallWallet + 23

\* C26: in every reachable state an escrow account holds, above the rent
\* reserve, exactly escrow.amount while the escrow is Active or Disputed
\* and nothing once it is Completed or Cancelled; an escrow account is
\* lowered once, by its amount, and refund_buyer returns exactly
\* escrow.amount to the buyer.
AboveRent(e) == e.lamports - RentExempt

C26_VaultHoldsAmount ==
    /\ [](\A k \in DOMAIN escrows :
            AboveRent(escrows[k]) =
               IF escrows[k].status \in {"Active", "Disputed"}
               THEN escrows[k].amount ELSE 0)
    /\ [][\A k \in DOMAIN escrows :
            /\ escrows[k].lamports - escrows'[k].lamports
                 \in {0, escrows[k].amount}
            /\ is_finalized(escrows[k])
               => escrows'[k].lamports = escrows[k].lamports]_vars
    /\ [][(last'.op = "refund_buyer" /\ last'.err = "Ok")
          => \E k \in DOMAIN escrows :
                /\ escrows[k].status = "Disputed"
                /\ escrows'[k].status = "Cancelled"
                /\ lamports' = [lamports EXCEPT ![escrows[k].buyer] =
                                  @ + escrows[k].amount]]_vars

\* C27: the sum of all balances (the users, the admin among them, every
\* escrow account and the fee collector) is left as it was by every
\* create_escrow, release_funds, cancel_escrow, raise_dispute, refund_buyer,
\* resolve_dispute and withdraw_fees, successful or failing; counting also
\* the rent reserve held by each configuration, arbiter and reputation
\* account, the sum is the same in every reachable state.
RECURSIVE SumOf(_, _)
SumOf(f, S) ==
    IF S = {} THEN 0
    ELSE LET x == CHOOSE y \in S : TRUE IN f[x] + SumOf(f, S \ {x})

Balances ==
    SumOf(lamports, Users)
      + SumOf([k \in DOMAIN escrows |-> escrows[k].lamports], DOMAIN escrows)
      + fee_collector

RentHeld ==
    RentExempt * (Cardinality(DOMAIN config) + Cardinality(DOMAIN arbiters)
                    + Cardinality(DOMAIN reputations))

ValueOps == {"create_escrow", "release_funds", "cancel_escrow",
             "raise_dispute", "refund_buyer", "resolve_dispute",
             "withdraw_fees"}

C27_ValueConserved ==
    /\ [](Balances + RentHeld = SumOf(InitialLamports, Users))
    /\ [][last'.op \in ValueOps => Balances' = Balances]_vars

\* An escrow of 25 was split by the arbiter, 12 to the buyer and 13 to the
\* seller, after rent had been paid for the configuration and the arbiter.
C27_Witness ==
    /\ last.op = "resolve_dispute"
    /\ last.err = "Ok"
    /\ last.arg = "Split"
    /\ lamports["bob"] = SmallWallet + 13
    /\ RentHeld = 2 * RentExempt
    /\ Balances = SumOf(InitialLamports, Users) - 2 * RentExempt

\* C28: release_funds charges the fee only when the caller passes both the
\* config and the fee collector.  With either left out the release of an
\* Active escrow by its buyer still succeeds, the fee collector keeps its
\* balance and the seller gets the whole escrow.amount, also when a
\* configuration with a fee above 0 exists.  With both passed, the fee
\* collector must be the program's own or the call fails and changes nothing.
C28_FeeSlotCalls ==
    last.err = "Ok" =>
    \A k \in DOMAIN escrows, slot \in FeeSlotInputs :
    \A overflow_checks \in OverflowChecks :
        LET e == escrows[k]
            r == release_funds(Ledger, k, e.buyer, e.seller, NoAccount,
                               NoAccount, slot[1], slot[2], overflow_checks)
        IN  (e.status = "Active" /\ (slot[1] => CONFIG_SEED \in DOMAIN config))
            => IF ~slot[1] \/ slot[2] = NoAccount
               THEN /\ r.err = "Ok"
                    /\ r.st.fee_collector = fee_collector
                    /\ r.st.lamports[e.seller] = lamports[e.seller] + e.amount
               ELSE IF slot[2] = FEE_COLLECTOR_SEED
               THEN /\ r.err = "Ok"
                    /\ r.st.fee_collector - fee_collector
                         = e.amount - (r.st.lamports[e.seller]
                                         - lamports[e.seller])
                    /\ (e.amount * config[CONFIG_SEED].fee_basis_points
                          >= BASIS_POINTS_DIVISOR)
                       => r.st.fee_collector > fee_collector
               ELSE /\ r.err = "InvalidFeeCollector"
                    /\ Committed(r) = Ledger

C28_FeeOnlyWithBothAccounts ==
    /\ []C28_FeeSlotCalls
    /\ [][last'.op = "release_funds"
          => /\ fee_collector' # fee_collector
                => last'.arg = <<TRUE, FEE_COLLECTOR_SEED>>
             /\ (last'.err = "Ok" /\ ~ChargesFee(last'.arg[1], last'.arg[2]))
                => \A k \in DOMAIN escrows :
                      escrows'[k] # escrows[k]
                      => lamports'[escrows[k].seller] =
                           lamports[escrows[k].seller] + escrows[k].amount
            ]_vars

\* The buyer released an escrow of 25 passing the config but no fee
\* collector, the fee being 10%: the seller has all 25 and the fee
\* collector nothing.
C28_Witness ==
    /\ last.op = "release_funds"
    /\ last.err = "Ok"
    /\ last.arg = <<TRUE, NoAccount>>
    /\ config[CONFIG_SEED].fee_basis_points = MAX_FEE_BASIS_POINTS
    /\ fee_collector = 0
    /\ lamports["bob"] = SmallWallet + 25

\* C29: deactivation of an arbiter is permanent: once is_active is false
\* for an identity no step makes it true again or removes the record,
\* add_arbiter for that identity fails because the record exists, whoever
\* signs, and the identity cannot resolve any dispute.
Deactivated == {a \in DOMAIN arbiters : ~arbiters[a].is_active}

C29_DeactivatedCalls ==
    last.err = "Ok" =>
    \A a \in Deactivated :
        /\ \A u \in Users :
              LET add == add_arbiter(Ledger, unix_timestamp, u, a) IN
              /\ add.err = "AccountAlreadyInUse"
              /\ add.st = Ledger
        /\ \A k \in DOMAIN escrows, r \in DisputeResolution :
              resolve_dispute(Ledger, k, a, a, escrows[k].buyer,
                              escrows[k].seller, NoAccount, NoAccount, r).err
                 # "Ok"

C29_DeactivationPermanent ==
    /\ []C29_DeactivatedCalls
    /\ [][\A a \in Deactivated :
            /\ a \in DOMAIN arbiters'
            /\ ~arbiters'[a].is_active]_vars
    /\ [][(last'.op = "resolve_dispute" /\ last'.err = "Ok")
          => last'.signer \notin Deactivated]_vars

\* The admin removed an arbiter and then tried to add the same identity
\* again: the record, inactive, is still there and the call was rejected.
C29_Witness ==
    /\ last.op = "add_arbiter"
    /\ last.err = "AccountAlreadyInUse"
    /\ last.signer = config[CONFIG_SEED].admin
    /\ last.arg \in Deactivated

\* C30: no escrow's funds are locked for ever.  In every reachable state,
\* for every escrow that is Active or Disputed some instruction is accepted
\* that moves it to Completed or Cancelled: cancel_escrow, release_funds or
\* refund_buyer signed by its buyer, or resolve_dispute signed by an arbiter;
\* this includes a Disputed escrow when no active arbiter exists.
Terminates(res, k) ==
    /\ res.err = "Ok"
    /\ is_finalized(res.st.escrows[k])

C30_SettlementEnabled ==
    \A k \in DOMAIN escrows :
        LET e == escrows[k] IN
        e.status \in {"Active", "Disputed"}
        => \/ Terminates(cancel_escrow(Ledger, k, e.buyer, e.seller), k)
           \/ \E fee \in FeeSlotInputs, overflow_checks \in OverflowChecks :
                 Terminates(release_funds(Ledger, k, e.buyer, e.seller,
                                          NoAccount, NoAccount, fee[1],
                                          fee[2], overflow_checks), k)
           \/ Terminates(refund_buyer(Ledger, k, e.buyer, e.seller,
                                      NoAccount, NoAccount), k)
           \/ \E arbiter \in DOMAIN arbiters,
                 resolution \in DisputeResolution :
                 Terminates(resolve_dispute(Ledger, k, arbiter, arbiter,
                                            e.buyer, e.seller, NoAccount,
                                            NoAccount, resolution), k)

====
